---- MODULE Spec2Model ----
(***************************************************************************)
(* InformedChoice backend: the lazy enrichment (fill-on-read) pipeline of  *)
(* backend/app/crud.py behind the /v1/search-products endpoint of          *)
(* backend/app/main.py.                                                    *)
(*                                                                         *)
(* Text values are sequences of tokens (a token is a character or a word;  *)
(* the token " " is whitespace).  Optional values are <<>> (None / SQL     *)
(* NULL) or <<v>>.                                                         *)
(***************************************************************************)
EXTENDS Integers, Sequences, FiniteSets, TLC

VARIABLES store, task, started, heuristic

vars == <<store, task, started, heuristic>>

\* ------------------------------------------------------------------ bounds
\* Number of requests the endpoint handles in one behaviour.
MaxRequests == 2

\* Ingredient lists given to heuristicScore: up to MaxMarked ingredients that
\* name an ultra-processing marker, then up to MaxPlain that name none.
MaxMarked == 4

MaxPlain == 21

\* --------------------------------------------------------------- optionals
None == <<>>

Some(v) == <<v>>

Val(o) == o[1]

\* Python truthiness of Optional[int] and Optional[str].
TruthyInt(o) == o # None /\ Val(o) # 0

TruthyStr(o) == o # None /\ Val(o) # <<>>

\* -------------------------------------------------------------------- text
RECURSIVE LStrip(_)
LStrip(s) == IF s # <<>> /\ Head(s) = " " THEN LStrip(Tail(s)) ELSE s

RECURSIVE RStrip(_)
RStrip(s) ==
  IF s # <<>> /\ s[Len(s)] = " " THEN RStrip(SubSeq(s, 1, Len(s) - 1)) ELSE s

\* str.strip()
Strip(s) == RStrip(LStrip(s))

LowerTok(c) ==
  CASE c = "Milk" -> "milk" [] c = "MILK" -> "milk" [] c = "Water" -> "water"
    [] c = "Emulsifier" -> "emulsifier"
    [] OTHER -> c

\* str.lower()
Lower(s) == [i \in 1..Len(s) |-> LowerTok(s[i])]

\* str.replace(a, b) for one-token a and b
Replace(s, a, b) == [i \in 1..Len(s) |-> IF s[i] = a THEN b ELSE s[i]]

\* re.split(r'[,;]', s): cut at every separator token, empty pieces kept
RECURSIVE SplitAt(_, _, _)
SplitAt(s, seps, cur) ==
  IF s = <<>> THEN <<cur>>
  ELSE IF Head(s) \in seps THEN <<cur>> \o SplitAt(Tail(s), seps, <<>>)
  ELSE SplitAt(Tail(s), seps, Append(cur, Head(s)))

ReSplit(s) == SplitAt(s, {",", ";"}, <<>>)

\* ------------------------------------------------------------- the schemas
\* pydantic HttpUrl
IsHttpUrl(s) == s # <<>> /\ s[1] \in {"http://", "https://"}

NoUrlFound == <<"No", " ", "URL", " ", "found">>

ShopUrl == <<"https://", "shop">>

\* DieticanAgentResponse values the score agents can produce (score in 1..5)
DieticianAnswers ==
  { [score |-> 2, score_explanation |-> <<" ", "few", " ">>],
    [score |-> 4, score_explanation |-> <<"many">>] }

\* PotentialHealthIssues values the health agent can produce
HealthAnswers == { [potential_health_issues |-> <<"sugar">>] }

\* str values the URL agent can produce
UrlAnswers == { <<" ", "https://", "shop">>, NoUrlFound }

\* The ways one agent run ends without a validated payload: the run times
\* out (arun raises), the run raises a pydantic ValidationError, or the run
\* returns content that is not an instance of the response model.
FailureKinds == {"timeout", "validation", "malformed"}

\* RunResponse.content of a run whose output did not parse into the response
\* model: the raw text, not a model instance.
RawText == [text |-> <<"oops">>]

IsPotentialHealthIssues(v) == "potential_health_issues" \in DOMAIN v

\* json.dumps(health_issues.model_dump()): the JSON document of the model
JsonDumps(h) == [json |-> h]

IsJson(v) == "json" \in DOMAIN v

\* ------------------------------------------------------------- the products
DerivedCols ==
  {"processed_score", "processed_score_explanation", "nutrition_score",
   "nutrition_score_explanation", "health_issues", "url"}

RawCols ==
  {"fdc_id", "gtin_upc", "description", "brand_name", "brand_owner",
   "ingredients", "nutrition_info", "branded_food_category", "autocomplete"}

RowIds == {1, 2}

\* The raw columns as ingestion wrote them.
RawRow(i) ==
  IF i = 1
  THEN [fdc_id |-> 1, gtin_upc |-> <<"0", "1">>,
        description |-> <<"Milk">>, brand_name |-> None,
        brand_owner |-> Some(<<"Acme">>),
        ingredients |-> <<" ", "milk", ",", " ", "sugar", ";", "cocoa", " ">>,
        nutrition_info |-> <<"Energy", " ", "242">>,
        branded_food_category |-> Some(<<"Dairy">>),
        autocomplete |-> {<<"cocoa">>}]
  ELSE [fdc_id |-> 2, gtin_upc |-> <<"0", "2">>,
        description |-> <<"Water">>, brand_name |-> Some(<<"Brook">>),
        brand_owner |-> None,
        ingredients |-> <<"water">>,
        nutrition_info |-> <<"Energy", " ", "0">>,
        branded_food_category |-> None,
        autocomplete |-> {<<"water">>, <<"milk">>}]

\* Derived columns of a row that an earlier read has enriched.
StoredScore == Some(3)

StoredExplanation == Some(<<"some">>)

StoredHealth == Some(JsonDumps([potential_health_issues |-> <<>>]))

StoredUrl == Some(ShopUrl)

\* A row whose derived field groups in `filled` are set, the others NULL.
MakeRow(i, filled) ==
  [c \in RawCols \cup DerivedCols |->
     IF c \in RawCols THEN RawRow(i)[c]
     ELSE IF c = "processed_score" /\ "p" \in filled THEN StoredScore
     ELSE IF c = "processed_score_explanation" /\ "p" \in filled
       THEN StoredExplanation
     ELSE IF c = "nutrition_score" /\ "n" \in filled THEN StoredScore
     ELSE IF c = "nutrition_score_explanation" /\ "n" \in filled
       THEN StoredExplanation
     ELSE IF c = "health_issues" /\ "h" \in filled THEN StoredHealth
     ELSE IF c = "url" /\ "u" \in filled THEN StoredUrl
     ELSE None]

\* ------------------------------------------------------------- the requests
Req(f, g, q) == [fdc_id |-> f, gtin_upc |-> g, query |-> q]

\* ProductSearchRequest bodies
Requests ==
  { Req(None, None, None),
    Req(None, None, Some(<<>>)),
    Req(Some(0), None, None),
    Req(None, Some(<<>>), None),
    Req(Some(1), None, None),
    Req(Some(7), None, None),
    Req(None, Some(<<"0", "2">>), None),
    Req(None, Some(<<"0", "0">>), None),
    Req(None, None, Some(<<"MILK">>)),
    Req(None, None, Some(<<"Milk", " ", "Water">>)),
    Req(None, None, Some(<<"tea">>)),
    Req(Some(2), Some(<<"0", "1">>), None),
    Req(Some(0), Some(<<>>), Some(<<"water">>)) }

Tasks == {"t1", "t2"}

\* ---------------------------------------------------------------- the router
\* main.py: the endpoint's own check of the request body
NoIdentifier(req) ==
  req.fdc_id = None /\ req.gtin_upc = None /\ req.query = None

\* The barcode branch tested before the fdc_id branch.
ConditionBarcodeFirst(req) ==
  IF TruthyStr(req.gtin_upc)
    THEN Some([kind |-> "gtin_upc", value |-> Val(req.gtin_upc)])
  ELSE IF TruthyInt(req.fdc_id)
    THEN Some([kind |-> "fdc_id", value |-> <<Val(req.fdc_id)>>])
  ELSE IF TruthyStr(req.query)
    THEN Some([kind |-> "query",
               value |-> Replace(Lower(Val(req.query)), " ", "+")])
  ELSE None

\* crud.py search_products: the WHERE condition handed to search_products_by,
\* None when no branch of the if/elif chain is taken
Condition(req) ==
  IF TruthyInt(req.fdc_id)
    THEN Some([kind |-> "fdc_id", value |-> <<Val(req.fdc_id)>>])
  ELSE IF TruthyStr(req.gtin_upc)
    THEN Some([kind |-> "gtin_upc", value |-> Val(req.gtin_upc)])
  ELSE IF TruthyStr(req.query)
    THEN Some([kind |-> "query",
               value |-> Replace(Lower(Val(req.query)), " ", "+")])
  ELSE None

\* The endpoint check left out and the first branch taken unconditionally.
RouteUnchecked(req) ==
  [exc |-> "", cond |-> Some([kind |-> "fdc_id", value |-> req.fdc_id])]

\* What the endpoint and search_products do before any await: raise, or
\* call search_products_by with a condition.
Route(req) ==
  IF NoIdentifier(req) THEN [exc |-> "HTTPException400", cond |-> None]
  ELSE IF Condition(req) = None
    THEN [exc |-> "UnboundLocalError", cond |-> None]
  ELSE [exc |-> "", cond |-> Condition(req)]

\* plainto_tsquery: the words of the text, all of which must match
TsWords(text) == {w \in {SplitAt(text, {"+"}, <<>>)[i] :
                          i \in 1..Len(SplitAt(text, {"+"}, <<>>))} : w # <<>>}

\* The WHERE clause of the SELECT, evaluated on one row.
Matches(r, cond) ==
  CASE cond.kind = "fdc_id" -> cond.value = <<r.fdc_id>>
    [] cond.kind = "gtin_upc" -> cond.value = r.gtin_upc
    [] OTHER -> TsWords(cond.value) # {}
                /\ \A w \in TsWords(cond.value) : w \in r.autocomplete

\* main.py: the except clause of the endpoint turns every exception raised
\* in its try block, its own HTTPExceptions included, into a 500.
HandlerStatus(exc) == 500

\* ------------------------------------------------------------------ a task
\* The local variables of search_products_by, None until assigned.
NoLocals ==
  [processed_score |-> None, processed_score_explanation |-> None,
   nutrition_score |-> None, nutrition_score_explanation |-> None,
   health_issues |-> None, url |-> None]

\* One request being handled.  pc is the await the coroutine is suspended in
\* (or about to reach); calls, reads, updates and commits record the oracle
\* runs, the SELECTs, the UPDATE statements and the successful commits the
\* request has issued; returned is how search_products_by ended; seq is the
\* position of the request in the order of arrival.
IdleTask ==
  [pc |-> "idle", seq |-> 0, req |-> None, cond |-> None, row |-> None,
   loc |-> NoLocals, set_query |-> <<>>, calls |-> <<>>, reads |-> 0,
   updates |-> <<>>, commits |-> 0, session |-> "none", returned |-> "no",
   response |-> None, error |-> "", status |-> 0]

\* The exception leaves without the session being closed.
RaiseKeepsSession(tk, exc) ==
  [tk EXCEPT !.pc = "done",
             !.returned = IF tk.session = "open" THEN "raised" ELSE @,
             !.error = exc, !.status = HandlerStatus(exc)]

\* An exception leaves search_products_by (closing the session of its
\* async with block) and reaches the endpoint's except clause.
Raise(tk, exc) ==
  [tk EXCEPT !.pc = "done",
             !.session = IF tk.session = "open" THEN "closed" ELSE @,
             !.returned = IF tk.session = "open" THEN "raised" ELSE @,
             !.error = exc, !.status = HandlerStatus(exc)]

\* The test inverted.
PendingInverted(row, col) == row[col] # None

\* `row.get(col) is None`
Pending(row, col) == row[col] = None

\* The test left out.
NotFoundNever(row) == FALSE

\* `if not row`, row being what result.mappings().first() gave
NotFound(row) == row = None

\* `name in set_query`
InSetQuery(name, sq) == \E i \in 1..Len(sq) : sq[i] = name

\* The outcomes of one agent run: a payload, or one of the failure kinds.
Outcomes(answers) ==
  {[kind |-> "ok", content |-> Some(a)] : a \in answers}
    \cup {[kind |-> k, content |-> None] : k \in FailureKinds}

\* The exception arun raises for a failure kind that raises.
RunException(kind) ==
  IF kind = "timeout" THEN "TimeoutError" ELSE "ValidationError"

\* One agent run: the agent, its prompt, how the run ended and the
\* RunResponse.content it gave.
Call(agent, arg) ==
  [agent |-> agent, arg |-> arg, outcome |-> "pending", content |-> None]

\* The run the task is suspended in has ended with outcome o.
Ended(tk, o) ==
  [tk EXCEPT !.calls[Len(tk.calls)].outcome = o.kind,
             !.calls[Len(tk.calls)].content = o.content]

\* pydantic validation of the ProductSearchResponse fields
ValidScore(o) == o # None /\ Val(o) \in 1..5

ValidText(o) == o # None

\* health_issues accepted whatever its type.
ValidHealthAnyType(o) == o # None

ValidHealth(o) ==
  o # None /\ (IsPotentialHealthIssues(Val(o)) \/ IsJson(Val(o)))

ValidUrl(o) == o = None \/ IsHttpUrl(Val(o))

\* The PotentialHealthIssues a valid input is coerced to: a model instance
\* stays, the JSON document read back from the row is parsed.
CoerceHealth(v) == IF IsJson(v) THEN v.json ELSE v

\* `row['brand_name'] or row['brand_owner'] or None`
Brand(r) ==
  IF TruthyStr(r.brand_name) THEN r.brand_name
  ELSE IF TruthyStr(r.brand_owner) THEN r.brand_owner
  ELSE None

\* crud.py 151-163: build the response, or raise pydantic's ValidationError;
\* either way the async with block closes the session, and the endpoint
\* answers.
Respond(tk) ==
  LET r == Val(tk.row)
      l == tk.loc
  IN IF /\ ValidScore(l.processed_score)
        /\ ValidText(l.processed_score_explanation)
        /\ ValidScore(l.nutrition_score)
        /\ ValidText(l.nutrition_score_explanation)
        /\ ValidHealth(l.health_issues)
        /\ ValidUrl(l.url)
     THEN [tk EXCEPT
             !.pc = "done", !.session = "closed", !.returned = "response",
             !.status = 200,
             !.response = Some(
               [name |-> r.description,
                brand |-> Brand(r),
                ingredients |-> ReSplit(Strip(r.ingredients)),
                category |-> r.branded_food_category,
                processed_score |-> Val(l.processed_score),
                processed_score_explanation |-> Val(l.processed_score_explanation),
                nutrition_score |-> Val(l.nutrition_score),
                nutrition_score_explanation |-> Val(l.nutrition_score_explanation),
                health_issues |-> CoerceHealth(Val(l.health_issues)),
                url |-> l.url])]
     ELSE Raise(tk, "ValidationError")

\* crud.py 124-140: the names bound in update_params
ParamNames(sq) ==
  {"fdc_id"}
    \cup (IF InSetQuery("processed_score", sq)
          THEN {"processed_score", "processed_score_explanation"} ELSE {})
    \cup (IF InSetQuery("nutrition_score", sq)
          THEN {"nutrition_score", "nutrition_score_explanation"} ELSE {})
    \cup (IF InSetQuery("health_issues", sq) THEN {"health_issues"} ELSE {})
    \cup (IF InSetQuery("url", sq) THEN {"url"} ELSE {})

\* health_issues.model_dump() exists only on a model instance
CanDump(tk) ==
  InSetQuery("health_issues", tk.set_query)
    => IsPotentialHealthIssues(Val(tk.loc.health_issues))

\* The explanation of the other score bound to processed_score_explanation.
UpdateParamsSwapped(tk) ==
  [n \in ParamNames(tk.set_query) |->
     IF n = "fdc_id" THEN Val(tk.row).fdc_id
     ELSE IF n = "health_issues"
       THEN Some(JsonDumps(Val(tk.loc.health_issues)))
     ELSE IF n = "processed_score_explanation"
       THEN tk.loc.nutrition_score_explanation
     ELSE tk.loc[n]]

UpdateParams(tk) ==
  [n \in ParamNames(tk.set_query) |->
     IF n = "fdc_id" THEN Val(tk.row).fdc_id
     ELSE IF n = "health_issues"
       THEN Some(JsonDumps(Val(tk.loc.health_issues)))
     ELSE tk.loc[n]]

\* The UPDATE without its WHERE clause.
ApplyUpdateAllRows(st, stmt) ==
  [i \in RowIds |->
     [c \in DOMAIN st[i] |->
        IF \E k \in 1..Len(stmt.cols) : stmt.cols[k] = c
        THEN stmt.params[c] ELSE st[i][c]]]

\* UPDATE products SET <cols> WHERE fdc_id = :fdc_id, applied to the table
ApplyUpdate(st, stmt) ==
  [i \in RowIds |->
     IF st[i].fdc_id = stmt.params["fdc_id"]
     THEN [c \in DOMAIN st[i] |->
             IF InSetQuery(c, stmt.cols) THEN stmt.params[c] ELSE st[i][c]]
     ELSE st[i]]

\* The coroutine runs from one await to the next without interruption.  Each
\* operator below is the code from one point up to the next await it
\* reaches: pc names the call the task is then suspended in.

\* crud.py 120-142: nothing to send (or model_dump raises, caught at 148)
\* and the response is built; otherwise the UPDATE is sent.
SendUpdate(tk) ==
  IF tk.set_query = <<>> \/ ~CanDump(tk)
  THEN Respond(tk)
  ELSE [tk EXCEPT !.updates = Append(@, [cols |-> tk.set_query,
                                          params |-> UpdateParams(tk)]),
                  !.pc = "update"]

\* f"{name} {f'by {brand}' if brand else ''}"
UrlPrompt(name, brand) ==
  name \o <<" ">> \o (IF TruthyStr(brand) THEN <<"by", " ">> \o Val(brand)
                       ELSE <<>>)

\* A stored "No URL found" taken for a URL not yet looked up.
FromUrlRetriesSentinel(tk) ==
  LET r == Val(tk.row)
  IN IF Pending(r, "url") \/ r.url = Some(NoUrlFound)
     THEN [tk EXCEPT !.calls = Append(@, Call("get_product_url",
                                   UrlPrompt(r.description, Brand(r)))),
                     !.pc = "url"]
     ELSE SendUpdate([tk EXCEPT !.loc.url = r.url])

\* crud.py 112-118
FromUrl(tk) ==
  LET r == Val(tk.row)
  IN IF Pending(r, "url")
     THEN [tk EXCEPT !.calls = Append(@, Call("get_product_url",
                                   UrlPrompt(r.description, Brand(r)))),
                     !.pc = "url"]
     ELSE SendUpdate([tk EXCEPT !.loc.url = r.url])

\* The health-issues run started and not awaited.
FromHealthIssuesNoAwait(tk) ==
  LET r == Val(tk.row)
  IN IF Pending(r, "health_issues")
     THEN FromUrl([tk EXCEPT !.calls = Append(@, Call("get_health_issues",
                                   <<"Ingredients:", " ">> \o r.ingredients))])
     ELSE FromUrl([tk EXCEPT !.loc.health_issues = r.health_issues])

\* crud.py 105-110
FromHealthIssues(tk) ==
  LET r == Val(tk.row)
  IN IF Pending(r, "health_issues")
     THEN [tk EXCEPT !.calls = Append(@, Call("get_health_issues",
                                   <<"Ingredients:", " ">> \o r.ingredients)),
                     !.pc = "health_issues"]
     ELSE FromUrl([tk EXCEPT !.loc.health_issues = r.health_issues])

\* crud.py 97-103
FromNutritionScore(tk) ==
  LET r == Val(tk.row)
  IN IF Pending(r, "nutrition_score")
     THEN [tk EXCEPT !.calls = Append(@, Call("get_nutrition_score",
                                   <<"Nutritional", " ", "Information:", " ">>
                                     \o r.nutrition_info)),
                     !.pc = "nutrition_score"]
     ELSE FromHealthIssues(
            [tk EXCEPT !.loc.nutrition_score = r.nutrition_score,
                       !.loc.nutrition_score_explanation =
                          r.nutrition_score_explanation])

\* The `set_query +=` of line 92 moved out of the if block.
FromProcessedScoreAlwaysSet(tk) ==
  LET r == Val(tk.row)
  IN IF Pending(r, "processed_score")
     THEN [tk EXCEPT !.calls = Append(@, Call("get_processed_score",
                                   <<"Ingredients:", " ">> \o r.ingredients)),
                     !.pc = "processed_score"]
     ELSE FromNutritionScore(
            [tk EXCEPT !.loc.processed_score = r.processed_score,
                       !.loc.processed_score_explanation =
                          r.processed_score_explanation,
                       !.set_query = @ \o <<"processed_score",
                                            "processed_score_explanation">>])

\* crud.py 81-95
FromProcessedScore(tk) ==
  LET r == Val(tk.row)
  IN IF Pending(r, "processed_score")
     THEN [tk EXCEPT !.calls = Append(@, Call("get_processed_score",
                                   <<"Ingredients:", " ">> \o r.ingredients)),
                     !.pc = "processed_score"]
     ELSE FromNutritionScore(
            [tk EXCEPT !.loc.processed_score = r.processed_score,
                       !.loc.processed_score_explanation =
                          r.processed_score_explanation])

\* The explanation column left out of set_query.
ScoreResultScoreOnly(tk, col, expl, o) ==
  IF o.kind = "ok"
  THEN [tk EXCEPT !.loc[col] = Some(Val(o.content).score),
                  !.loc[expl] = Some(Strip(Val(o.content).score_explanation)),
                  !.set_query = Append(@, col)]
  ELSE IF o.kind = "malformed" THEN Raise(tk, "AttributeError")
  ELSE Raise(tk, RunException(o.kind))

\* calculate_processed_score / calculate_nutrition_score: the locals and
\* set_query after the run returned `o`, or the exception.
ScoreResult(tk, col, expl, o) ==
  IF o.kind = "ok"
  THEN [tk EXCEPT !.loc[col] = Some(Val(o.content).score),
                  !.loc[expl] = Some(Strip(Val(o.content).score_explanation)),
                  !.set_query = @ \o <<col, expl>>]
  ELSE IF o.kind = "malformed" THEN Raise(tk, "AttributeError")
  ELSE Raise(tk, RunException(o.kind))

\* get_health_issues: content is returned as it is, model instance or not.
HealthResult(tk, o) ==
  IF o.kind \in {"ok", "malformed"}
  THEN [tk EXCEPT !.loc.health_issues =
                     IF o.kind = "ok" THEN o.content ELSE Some(RawText),
                  !.set_query = Append(@, "health_issues")]
  ELSE Raise(tk, RunException(o.kind))

\* `url = :url` added to set_query without the `if url:` test.
UrlResultAlwaysSet(tk, o) ==
  IF o.kind = "ok"
  THEN [tk EXCEPT !.loc.url = Some(Strip(Val(o.content))),
                  !.set_query = Append(@, "url")]
  ELSE IF o.kind = "validation"
    THEN [tk EXCEPT !.loc.url = None, !.set_query = Append(@, "url")]
  ELSE IF o.kind = "malformed" THEN Raise(tk, "AttributeError")
  ELSE Raise(tk, RunException(o.kind))

\* get_product_url: only a ValidationError is caught; `if url:`.
UrlResult(tk, o) ==
  IF o.kind = "ok"
  THEN [tk EXCEPT !.loc.url = Some(Strip(Val(o.content))),
                  !.set_query = IF Strip(Val(o.content)) # <<>>
                                THEN Append(@, "url") ELSE @]
  ELSE IF o.kind = "validation" THEN [tk EXCEPT !.loc.url = None]
  ELSE IF o.kind = "malformed" THEN Raise(tk, "AttributeError")
  ELSE Raise(tk, RunException(o.kind))

\* ---------------------------------------------------- the fallback heuristic
\* The fixed set of ultra-processing markers, each one token of text.
UltraProcessingKeywords ==
  <<"corn syrup", "emulsifier", "modified starch", "artificial flavor">>

\* Ingredients that name a marker, in either case, and one that names none.
MarkedIngredients ==
  { <<"corn syrup">>, <<"emulsifier">>, <<"Emulsifier">>,
    <<"modified starch">>, <<"artificial flavor">> }

PlainIngredient == <<"water">>

IngredientLists ==
  { m \o [i \in 1..p |-> PlainIngredient] :
      m \in UNION {[1..k -> MarkedIngredients] : k \in 0..MaxMarked},
      p \in 0..MaxPlain }

\* case-insensitive match of a keyword in one ingredient
ContainsKeyword(ingredient, kw) ==
  \E i \in 1..Len(ingredient) : Lower(ingredient)[i] = kw

\* Every ingredient that names the keyword counted.
RECURSIVE KeywordHitsNoBreak(_, _)
KeywordHitsNoBreak(kw, ingredients) ==
  IF ingredients = <<>> THEN 0
  ELSE (IF ContainsKeyword(Head(ingredients), kw) THEN 1 ELSE 0)
         + KeywordHitsNoBreak(kw, Tail(ingredients))

\* match-and-break-per-keyword: the ingredients are scanned for the keyword
\* and the scan stops at the first that names it.
RECURSIVE KeywordHits(_, _)
KeywordHits(kw, ingredients) ==
  IF ingredients = <<>> THEN 0
  ELSE IF ContainsKeyword(Head(ingredients), kw) THEN 1
  ELSE KeywordHits(kw, Tail(ingredients))

RECURSIVE CountMatches(_, _)
CountMatches(kws, ingredients) ==
  IF kws = <<>> THEN 0
  ELSE KeywordHits(Head(kws), ingredients) + CountMatches(Tail(kws), ingredients)

\* One fixed explanation per score level.
ScoreExplanation(score) == <<"level", score>>

heuristicScore(ingredients) ==
  LET n == Len(ingredients)
      matches == CountMatches(UltraProcessingKeywords, ingredients)
      score == IF n <= 1 THEN 1
               ELSE IF n <= 5 /\ matches = 0 THEN 2
               ELSE IF n <= 10 /\ matches <= 1 THEN 3
               ELSE IF matches >= 4 \/ n > 20 THEN 5
               ELSE 4
  IN [score |-> score, explanation |-> ScoreExplanation(score)]

\* The heuristic is not in use.
NoHeuristic == [pc |-> "off", ingredients |-> <<>>, result |-> None]

\* ----------------------------------------------------------------- actions
Init ==
  /\ \E f1 \in SUBSET {"p", "n", "h", "u"} :
       store = [i \in RowIds |-> IF i = 1 THEN MakeRow(1, f1)
                                          ELSE MakeRow(2, {"p", "n", "h", "u"})]
  /\ task = [t \in Tasks |-> IdleTask]
  /\ started = 0
  /\ heuristic = NoHeuristic

\* A request is taken by the first free worker.
FirstFree(t) ==
  /\ task[t].pc = "idle"
  /\ t = "t2" => task["t1"].pc # "idle"

\* POST /v1/search-products up to the first await after the SELECT:
\* search_products_endpoint, search_products and the head of
\* search_products_by.
Search(t, req) ==
  /\ FirstFree(t)
  /\ started < MaxRequests
  /\ started' = started + 1
  /\ UNCHANGED <<store, heuristic>>
  /\ LET tk == [IdleTask EXCEPT !.req = Some(req), !.seq = started + 1]
         rt == Route(req)
     IN IF rt.exc # ""
        THEN task' = [task EXCEPT ![t] = Raise(tk, rt.exc)]
        ELSE LET cd == Val(rt.cond)
                 tk1 == [tk EXCEPT !.cond = rt.cond, !.session = "open",
                                   !.reads = 1]
                 matching == {i \in RowIds : Matches(store[i], cd)}
                 firsts == IF matching = {} THEN {None}
                           ELSE {Some(store[i]) : i \in matching}
             IN \/ task' = [task EXCEPT ![t] = Raise(tk1, "DBError")]
                \/ \E row \in firsts :
                     task' = [task EXCEPT ![t] =
                       IF NotFound(row)
                       THEN [tk1 EXCEPT !.pc = "done", !.session = "closed",
                                        !.returned = "None",
                                        !.error = "HTTPException404",
                                        !.status = HandlerStatus("HTTPException404")]
                       ELSE IF row = None THEN Raise(tk1, "TypeError")
                       ELSE FromProcessedScore([tk1 EXCEPT !.row = row])]

\* The processed-score run ends.
ProcessedScore(t) ==
  /\ task[t].pc = "processed_score"
  /\ \E o \in Outcomes(DieticianAnswers) :
       LET n == ScoreResult(Ended(task[t], o), "processed_score",
                            "processed_score_explanation", o)
       IN task' = [task EXCEPT ![t] =
                     IF n.pc = "done" THEN n ELSE FromNutritionScore(n)]
  /\ UNCHANGED <<store, started, heuristic>>

\* The nutrition-score run ends.
NutritionScore(t) ==
  /\ task[t].pc = "nutrition_score"
  /\ \E o \in Outcomes(DieticianAnswers) :
       LET n == ScoreResult(Ended(task[t], o), "nutrition_score",
                            "nutrition_score_explanation", o)
       IN task' = [task EXCEPT ![t] =
                     IF n.pc = "done" THEN n ELSE FromHealthIssues(n)]
  /\ UNCHANGED <<store, started, heuristic>>

\* The health-issues run ends.
HealthIssues(t) ==
  /\ task[t].pc = "health_issues"
  /\ \E o \in Outcomes(HealthAnswers) :
       LET n == HealthResult(Ended(task[t], o), o)
       IN task' = [task EXCEPT ![t] = IF n.pc = "done" THEN n ELSE FromUrl(n)]
  /\ UNCHANGED <<store, started, heuristic>>

\* The purchase-URL run ends.
ProductUrl(t) ==
  /\ task[t].pc = "url"
  /\ \E o \in Outcomes(UrlAnswers) :
       LET n == UrlResult(Ended(task[t], o), o)
       IN task' = [task EXCEPT ![t] =
                     IF n.pc = "done" THEN n ELSE SendUpdate(n)]
  /\ UNCHANGED <<store, started, heuristic>>

\* crud.py 142-163: the UPDATE returns and the commit is sent, or it raises
\* (caught at 148) and the response is built.
Update(t) ==
  /\ task[t].pc = "update"
  /\ UNCHANGED <<store, started, heuristic>>
  /\ LET tk == task[t]
         stmt == tk.updates[Len(tk.updates)]
     IN \/ /\ \A i \in 1..Len(stmt.cols) : stmt.cols[i] \in DOMAIN stmt.params
           /\ task' = [task EXCEPT ![t] = [tk EXCEPT !.pc = "commit"]]
        \/ task' = [task EXCEPT ![t] = Respond(tk)]

\* crud.py 143-163: the commit returns or raises (caught at 146), then the
\* response is built.
Commit(t) ==
  /\ task[t].pc = "commit"
  /\ UNCHANGED <<started, heuristic>>
  /\ LET tk == task[t]
         stmt == tk.updates[Len(tk.updates)]
     IN \/ /\ store' = ApplyUpdate(store, stmt)
           /\ task' = [task EXCEPT ![t] = Respond([tk EXCEPT !.commits = @ + 1])]
        \/ /\ UNCHANGED store
           /\ task' = [task EXCEPT ![t] = Respond(tk)]

\* The client has its answer; the worker is free again.
Finish(t) ==
  /\ task[t].pc = "done"
  /\ task' = [task EXCEPT ![t] = IdleTask]
  /\ UNCHANGED <<store, started, heuristic>>

Next ==
  \/ \E t \in Tasks, req \in Requests : Search(t, req)
  \/ \E t \in Tasks : ProcessedScore(t)
  \/ \E t \in Tasks : NutritionScore(t)
  \/ \E t \in Tasks : HealthIssues(t)
  \/ \E t \in Tasks : ProductUrl(t)
  \/ \E t \in Tasks : Update(t)
  \/ \E t \in Tasks : Commit(t)
  \/ \E t \in Tasks : Finish(t)

Spec == Init /\ [][Next]_vars

\* Requests handled one after the other: a request starts only when no other
\* is in flight.
Quiet == \A u \in Tasks : task[u].pc \in {"idle", "done"}

NextSeq ==
  \/ \E t \in Tasks, req \in Requests : Quiet /\ Search(t, req)
  \/ \E t \in Tasks : ProcessedScore(t)
  \/ \E t \in Tasks : NutritionScore(t)
  \/ \E t \in Tasks : HealthIssues(t)
  \/ \E t \in Tasks : ProductUrl(t)
  \/ \E t \in Tasks : Update(t)
  \/ \E t \in Tasks : Commit(t)
  \/ \E t \in Tasks : Finish(t)

SpecSeq == Init /\ [][NextSeq]_vars

\* The fallback heuristic on its own: any ingredient list, scored once.
InitHeuristic ==
  /\ store = [i \in RowIds |-> MakeRow(i, {"p", "n", "h", "u"})]
  /\ task = [t \in Tasks |-> IdleTask]
  /\ started = 0
  /\ \E l \in IngredientLists :
       heuristic = [pc |-> "input", ingredients |-> l, result |-> None]

Score ==
  /\ heuristic.pc = "input"
  /\ heuristic' = [heuristic EXCEPT
                     !.pc = "scored",
                     !.result = Some(heuristicScore(heuristic.ingredients))]
  /\ UNCHANGED <<store, task, started>>

NextHeuristic == Score

SpecHeuristic == InitHeuristic /\ [][NextHeuristic]_vars

\* ------------------------------------------------------------- vocabulary
\* The four derived fields, named by their leading column.
Fields == {"processed_score", "nutrition_score", "health_issues", "url"}

AgentOf(f) ==
  CASE f = "processed_score" -> "get_processed_score"
    [] f = "nutrition_score" -> "get_nutrition_score"
    [] f = "health_issues" -> "get_health_issues"
    [] OTHER -> "get_product_url"

ColsOf(f) ==
  CASE f = "processed_score" ->
         <<"processed_score", "processed_score_explanation">>
    [] f = "nutrition_score" ->
         <<"nutrition_score", "nutrition_score_explanation">>
    [] OTHER -> <<f>>

NullFields(row) == {f \in Fields : row[f] = None}

Done(t) == task[t].pc = "done"

Found(t) == task[t].row # None

\* The outcomes of the runs of agent a in task t.
OutcomesOf(t, a) ==
  {task[t].calls[k].outcome :
     k \in {j \in 1..Len(task[t].calls) : task[t].calls[j].agent = a}}

FailedCalls(t) ==
  {k \in 1..Len(task[t].calls) : task[t].calls[k].outcome \in FailureKinds}

\* The row of the store that task t loaded.
StoredRow(t) ==
  CHOOSE r \in {store[i] : i \in RowIds} : r.fdc_id = Val(task[t].row).fdc_id

NoWrites(t) == task[t].updates = <<>> /\ task[t].commits = 0

\* ------------------------------------------------------------------ claims
\* C1 (as claimed): for a found row with processed_score and health_issues
\* both NULL, when the health-issues run fails and the processed-score run
\* succeeds, search_products_by returns a response with the processed score
\* and no health issues, and the stored row then has processed_score written
\* and health_issues still NULL.
C1_HealthFailureTolerated ==
  \A t \in Tasks :
    ( /\ Done(t) /\ Found(t)
      /\ {"processed_score", "health_issues"} \subseteq NullFields(Val(task[t].row))
      /\ OutcomesOf(t, "get_processed_score") = {"ok"}
      /\ OutcomesOf(t, "get_health_issues") \cap FailureKinds # {} )
    => /\ task[t].returned = "response"
       /\ task[t].loc.processed_score # None
       /\ StoredRow(t).processed_score # None
       /\ StoredRow(t).health_issues = None

\* C2 (as claimed): for a found row, the failure of a single agent run never
\* makes search_products_by raise and never keeps the runs for the other
\* NULL fields from being attempted.
C2_SingleFailureNeverRaises ==
  \A t \in Tasks :
    (Done(t) /\ Found(t) /\ Cardinality(FailedCalls(t)) = 1)
    => /\ task[t].returned = "response"
       /\ \A f \in NullFields(Val(task[t].row)) : OutcomesOf(t, AgentOf(f)) # {}

\* C3: a request that finds a row whose four derived fields are all non-NULL
\* runs no agent, sends no UPDATE and commits nothing.
C3_PureReadThrough ==
  \A t \in Tasks :
    (Found(t) /\ NullFields(Val(task[t].row)) = {})
    => task[t].calls = <<>> /\ NoWrites(t)

C3_Witness ==
  \E t \in Tasks :
    /\ Done(t) /\ Found(t) /\ NullFields(Val(task[t].row)) = {}
    /\ task[t].returned = "response" /\ task[t].reads = 1

\* C4 (as claimed): for a row with exactly one derived field NULL, exactly
\* one agent run, exactly one UPDATE, and that UPDATE sets a single column.
C4_OneCallOneColumn ==
  \A t \in Tasks :
    (Done(t) /\ Found(t) /\ Cardinality(NullFields(Val(task[t].row))) = 1)
    => /\ Len(task[t].calls) = 1
       /\ Len(task[t].updates) = 1
       /\ Len(task[t].updates[1].cols) = 1

\* C4 (amended): for a row with exactly one derived field NULL, exactly one
\* agent run is made, the one for that field, and at most one UPDATE is
\* sent; the UPDATE is sent when the run returned a payload, and it sets
\* exactly the columns of that field: score and explanation for the two
\* scores, one column for health_issues and for url.
C4_OneCallOneField ==
  \A t \in Tasks :
    (Done(t) /\ Found(t) /\ Cardinality(NullFields(Val(task[t].row))) = 1)
    => LET f == CHOOSE g \in Fields : g \in NullFields(Val(task[t].row))
       IN /\ Len(task[t].calls) = 1
          /\ task[t].calls[1].agent = AgentOf(f)
          /\ Len(task[t].updates) <= 1
          /\ task[t].calls[1].outcome = "ok" => Len(task[t].updates) = 1
          /\ \A k \in 1..Len(task[t].updates) :
               task[t].updates[k].cols = ColsOf(f)

C4_Witness ==
  \E t \in Tasks :
    /\ Done(t) /\ Found(t)
    /\ NullFields(Val(task[t].row)) = {"processed_score"}
    /\ Len(task[t].calls) = 1 /\ task[t].commits = 1
    /\ Len(task[t].updates[1].cols) = 2

\* A successful commit by task t in this step.
Commits(t) ==
  task[t].pc = "commit" /\ task'[t].commits = task[t].commits + 1

\* C5 (as claimed): under any interleaving every committed UPDATE writes only
\* columns that are NULL in the stored row at that moment, so that each
\* derived field is written at most once and a non-NULL one is never
\* overwritten.
C5_WrittenAtMostOnce ==
  [][\A t \in Tasks :
       Commits(t) =>
         \A k \in 1..Len(task[t].set_query) :
           StoredRow(t)[task[t].set_query[k]] = None]_vars

\* C5 (amended): every UPDATE a request sends names only columns that were
\* NULL in the row as that request loaded it; requests that loaded the row
\* while a field was NULL may each write it, the later commit overwriting
\* the earlier.
C5_WritesOnlyLoadedNulls ==
  \A t \in Tasks :
    \A k \in 1..Len(task[t].updates) :
      \A j \in 1..Len(task[t].updates[k].cols) :
        Val(task[t].row)[task[t].updates[k].cols[j]] = None

C5_Witness ==
  \E t \in Tasks :
    /\ Done(t) /\ Found(t) /\ task[t].commits = 1
    /\ \E u \in Tasks \ {t} :
         /\ task[u].pc = "commit"
         /\ Val(task[u].row).fdc_id = Val(task[t].row).fdc_id
         /\ StoredRow(u)[task[u].set_query[1]] # None

\* C6: when requests run one after the other, no step changes a derived
\* column of the store that is non-NULL, and an agent run is started only
\* for a field that is NULL in the store.
C6_SequentialIdempotence ==
  [][/\ \A i \in RowIds : \A c \in DerivedCols :
          store[i][c] # None => store'[i][c] = store[i][c]
     /\ \A t \in Tasks :
          (task'[t].pc # "idle" /\ Len(task'[t].calls) > Len(task[t].calls))
          => \E f \in Fields :
               /\ task'[t].calls[Len(task'[t].calls)].agent = AgentOf(f)
               /\ \A i \in RowIds :
                    store[i].fdc_id = Val(task'[t].row).fdc_id
                    => store[i][f] = None]_vars

\* A second request has read what a first one wrote and ran no agent.
C6_Witness ==
  \E t \in Tasks :
    /\ Done(t) /\ Found(t) /\ started = 2
    /\ Val(task[t].row).processed_score \in {Some(2), Some(4)}
    /\ task[t].calls = <<>> /\ task[t].returned = "response"

\* C7 (as claimed): when every agent run of a request succeeded and the
\* UPDATE or its commit fails, search_products_by still returns the merged
\* response, scores and health issues populated, and the endpoint answers
\* 200.
C7_PersistenceFailureSwallowed ==
  \A t \in Tasks :
    ( /\ Done(t) /\ Found(t)
      /\ \A k \in 1..Len(task[t].calls) : task[t].calls[k].outcome = "ok"
      /\ Len(task[t].updates) = 1 /\ task[t].commits = 0 )
    => /\ task[t].returned = "response"
       /\ task[t].status = 200

\* C8: a request with none of fdc_id, gtin_upc and query set is rejected
\* without a SELECT, an agent run, an UPDATE or a commit.
C8_EmptyRequestTouchesNothing ==
  \A t \in Tasks :
    (task[t].req # None /\ NoIdentifier(Val(task[t].req)))
    => /\ Done(t) /\ task[t].status # 200 /\ task[t].response = None
       /\ task[t].reads = 0 /\ task[t].session = "none"
       /\ task[t].calls = <<>> /\ NoWrites(t)

C8_Witness ==
  \E t \in Tasks :
    /\ Done(t) /\ task[t].req = Some(Req(None, None, None))
    /\ task[t].error = "HTTPException400" /\ task[t].reads = 0

\* The one identifying field of the request is set but empty or zero.
OnlyEmptyField(req) ==
  /\ ~NoIdentifier(req)
  /\ Cardinality({n \in {"fdc_id", "gtin_upc", "query"} : req[n] # None}) = 1
  /\ ~TruthyInt(req.fdc_id) /\ ~TruthyStr(req.gtin_upc) /\ ~TruthyStr(req.query)

\* C9 (as claimed): a request whose only identifying field is set but empty
\* is answered 400 before any store access.
C9_EmptyFieldIs400 ==
  \A t \in Tasks :
    (Done(t) /\ OnlyEmptyField(Val(task[t].req)))
    => task[t].status = 400 /\ task[t].reads = 0

C11_OutcomesDistinguished ==
  \A t \in Tasks :
    Done(t) =>
      /\ NoIdentifier(Val(task[t].req)) => task[t].status = 400
      /\ task[t].returned = "None" => task[t].status = 404
      /\ task[t].returned = "raised" => task[t].status = 500

\* The run of agent a in the task record tk.
RunOf(tk, a) ==
  tk.calls[CHOOSE k \in 1..Len(tk.calls) : tk.calls[k].agent = a]

\* What the oracle call for column c hands back to search_products_by, given
\* the content of the agent's run: the explanation and the URL are stripped.
Computed(tk, c) ==
  CASE c = "processed_score" ->
         Some(Val(RunOf(tk, "get_processed_score").content).score)
    [] c = "processed_score_explanation" ->
         Some(Strip(Val(RunOf(tk, "get_processed_score").content).score_explanation))
    [] c = "nutrition_score" ->
         Some(Val(RunOf(tk, "get_nutrition_score").content).score)
    [] c = "nutrition_score_explanation" ->
         Some(Strip(Val(RunOf(tk, "get_nutrition_score").content).score_explanation))
    [] c = "health_issues" -> RunOf(tk, "get_health_issues").content
    [] OTHER ->
         IF RunOf(tk, "get_product_url").outcome = "ok"
         THEN Some(Strip(Val(RunOf(tk, "get_product_url").content)))
         ELSE None

\* The leading column of the field that column c belongs to.
FieldOf(c) ==
  CASE c = "processed_score_explanation" -> "processed_score"
    [] c = "nutrition_score_explanation" -> "nutrition_score"
    [] OTHER -> c

\* The value column c must have in the response of tk: the stored one when
\* the field was non-NULL at load, the computed one otherwise.
Merged(tk, c) ==
  IF Val(tk.row)[FieldOf(c)] # None THEN Val(tk.row)[c] ELSE Computed(tk, c)

\* C12: in every response returned for a found row, each derived field that
\* was non-NULL in the loaded row has its stored value, each field that was
\* NULL has the value the oracle call computed in this request, and a
\* successful commit leaves exactly the computed values in the columns of
\* the fields that were NULL.
C12_AdoptedAndComputed ==
  [][\A t \in Tasks :
       /\ task'[t].returned = "response" =>
            LET tk == task'[t]
                rs == Val(tk.response)
            IN /\ \A c \in DerivedCols \ {"health_issues", "url"} :
                    rs[c] = Val(Merged(tk, c))
               /\ rs.url = Merged(tk, "url")
               /\ rs.health_issues =
                    IF Val(tk.row).health_issues # None
                    THEN Val(Val(tk.row).health_issues).json
                    ELSE Val(Computed(tk, "health_issues"))
       /\ Commits(t) =>
            \A i \in RowIds :
              store[i].fdc_id = Val(task[t].row).fdc_id =>
                \A c \in DerivedCols :
                  store'[i][c] =
                    IF Val(task[t].row)[FieldOf(c)] # None
                       \/ Computed(task[t], c) = None
                    THEN store[i][c]
                    ELSE IF c = "health_issues"
                      THEN Some([json |-> Val(Computed(task[t], c))])
                    ELSE Computed(task[t], c)]_vars

C12_Witness ==
  \E t \in Tasks :
    /\ Done(t) /\ task[t].returned = "response" /\ task[t].commits = 1
    /\ NullFields(Val(task[t].row)) = {"processed_score", "health_issues"}
    /\ Val(task[t].response).nutrition_score = 3
    /\ Val(task[t].response).processed_score = 4
    /\ StoredRow(t).processed_score = Some(4)
    /\ StoredRow(t).nutrition_score = Some(3)

\* The fields of t's loaded row that were NULL and whose oracle call gave a
\* value; for the purchase URL the "No URL found" answer is no value.
ComputedFields(t) ==
  {f \in NullFields(Val(task[t].row)) :
     /\ "ok" \in OutcomesOf(t, AgentOf(f))
     /\ f = "url" =>
          Strip(Val(RunOf(task[t], "get_product_url").content))
            \notin {<<>>, NoUrlFound}}

\* C13 (as claimed): an invocation issues at most one UPDATE, only when some
\* pending field was computed; its SET clause names exactly the columns of
\* the pending and computed fields, each once, and binds a value to each.
C13_OneExactUpdate ==
  \A t \in Tasks :
    /\ Len(task[t].updates) <= 1
    /\ task[t].updates # <<>> =>
         LET stmt == task[t].updates[1]
             named == {stmt.cols[k] : k \in 1..Len(stmt.cols)}
         IN /\ ComputedFields(t) # {}
            /\ Cardinality(named) = Len(stmt.cols)
            /\ named = UNION {{ColsOf(f)[k] : k \in 1..Len(ColsOf(f))} :
                                f \in ComputedFields(t)}
            /\ \A c \in named :
                 c \in DOMAIN stmt.params /\ stmt.params[c] # None

\* C14 (as claimed): the "No URL found" text is never in the url column of
\* the store, and an invocation whose oracle calls all gave a value, the
\* purchase-URL one giving "No URL found", returns a result without url.
C14_SentinelIsNull ==
  /\ \A i \in RowIds : store[i].url # Some(NoUrlFound)
  /\ \A t \in Tasks :
       /\ Done(t) /\ Found(t)
       /\ FailedCalls(t) = {}
       /\ "ok" \in OutcomesOf(t, "get_product_url")
       /\ Strip(Val(RunOf(task[t], "get_product_url").content)) = NoUrlFound
       => /\ task[t].returned = "response"
          /\ Val(task[t].response).url = None

\* Invocation u came before invocation t on the same product, and in u the
\* purchase-URL oracle answered "No URL found".
AfterNoUrlFound(u, t) ==
  /\ Found(u) /\ Found(t)
  /\ task[u].seq < task[t].seq
  /\ Val(task[u].row).fdc_id = Val(task[t].row).fdc_id
  /\ "ok" \in OutcomesOf(u, "get_product_url")
  /\ Strip(Val(RunOf(task[u], "get_product_url").content)) = NoUrlFound

FirstFailed(t) ==
  IF FailedCalls(t) = {} THEN 0
  ELSE CHOOSE k \in FailedCalls(t) : \A j \in FailedCalls(t) : k <= j

\* C16 (as claimed): whatever the kind of an oracle failure (timeout,
\* malformed output, validation error), the effect on the invocation is the
\* same: the columns of the field are in no UPDATE, the field is null in a
\* returned result, and two invocations that loaded the same row and agree
\* up to a failure of the same call end alike: same oracle calls made, same
\* kind of return, same status.
C16_FailureKindsAlike ==
  /\ \A t \in Tasks :
       Done(t) /\ FirstFailed(t) # 0 =>
         LET f == CHOOSE g \in Fields :
                    AgentOf(g) = task[t].calls[FirstFailed(t)].agent
         IN /\ \A k \in 1..Len(task[t].updates) :
                 ~InSetQuery(f, task[t].updates[k].cols)
            /\ task[t].returned = "response" => task[t].loc[f] = None
  /\ \A t, u \in Tasks :
       /\ Done(t) /\ Done(u)
       /\ Found(t) /\ Found(u) /\ task[t].row = task[u].row
       /\ FirstFailed(t) # 0 /\ FirstFailed(t) = FirstFailed(u)
       /\ \A k \in 1..(FirstFailed(t) - 1) : task[t].calls[k] = task[u].calls[k]
       => /\ Len(task[t].calls) = Len(task[u].calls)
          /\ task[t].returned = task[u].returned
          /\ task[t].status = task[u].status

\* The value an UPDATE of tk leaves in column c: the computed value, the
\* health issues as their JSON document.
Written(tk, c) ==
  IF c = "health_issues" THEN Some([json |-> Val(Computed(tk, c))])
  ELSE Computed(tk, c)

\* Invocation t loaded a row with every derived field NULL, every one of its
\* four oracle calls gave a value and its UPDATE was committed.
EnrichedAll(t) ==
  /\ Done(t) /\ Found(t)
  /\ NullFields(Val(task[t].row)) = Fields
  /\ FailedCalls(t) = {}
  /\ \A f \in Fields : "ok" \in OutcomesOf(t, AgentOf(f))
  /\ task[t].commits = 1

\* C17 (as claimed): two invocations that both loaded the same unenriched
\* row, with working oracles and a working store, both return a fully
\* populated result, and afterwards every derived field of the stored row is
\* non-NULL and is the value one of the two computed for it.
C17_BenignDuplicate ==
  \A t, u \in Tasks :
    /\ t # u
    /\ EnrichedAll(t) /\ EnrichedAll(u)
    /\ Val(task[t].row).fdc_id = Val(task[u].row).fdc_id
    => /\ \A w \in {t, u} :
            /\ task[w].returned = "response"
            /\ Val(task[w].response).url # None
       /\ \A f \in Fields :
            /\ StoredRow(t)[f] # None
            /\ \E w \in {t, u} :
                 \A k \in 1..Len(ColsOf(f)) :
                   StoredRow(t)[ColsOf(f)[k]] = Written(task[w], ColsOf(f)[k])

\* The agents task t has called.
Called(t) == {task[t].calls[k].agent : k \in 1..Len(task[t].calls)}

\* Invocation u sent an UPDATE that was not committed, and t is the next
\* invocation on the same product.
NextAfterFailedWrite(u, t) ==
  /\ Done(u) /\ Found(u)
  /\ task[u].updates # <<>> /\ task[u].commits = 0
  /\ Done(t) /\ Found(t)
  /\ task[t].seq = task[u].seq + 1
  /\ Val(task[t].row).fdc_id = Val(task[u].row).fdc_id

\* C18 (as claimed): after an invocation whose UPDATE or commit failed the
\* stored row is as it was loaded, and the next invocation on the product
\* calls the oracles of exactly the fields that were NULL.
C18_RetryAfterFailedWrite ==
  \A t, u \in Tasks :
    NextAfterFailedWrite(u, t) =>
      /\ task[t].row = task[u].row
      /\ Called(t) = {AgentOf(f) : f \in NullFields(Val(task[u].row))}

\* C19: an invocation that has issued its UPDATE has no oracle call
\* outstanding, and issues no oracle call afterwards: the UPDATE, with the
\* columns and values it binds, comes after every oracle call has ended, in
\* success or in failure.
C19_JoinBeforeWrite ==
  [][\A t \in Tasks :
       task'[t].updates # <<>> =>
         /\ \A k \in 1..Len(task'[t].calls) :
              task'[t].calls[k].outcome # "pending"
         /\ task[t].updates # <<>> => task'[t].calls = task[t].calls]_vars

C19_Witness ==
  \E t \in Tasks :
    /\ task[t].pc = "update"
    /\ Len(task[t].calls) >= 2
    /\ FailedCalls(t) # {}
    /\ \A k \in 1..Len(task[t].calls) : task[t].calls[k].outcome # "pending"

\* C20 (as claimed): the ingredients of a result are the pieces of the stored
\* text between commas and semicolons, in order, each trimmed; the
\* processed-score and health-issues oracles are given the stored text as it
\* is.
C20_IngredientsTrimmed ==
  \A t \in Tasks :
    /\ task[t].returned = "response" =>
         LET pieces == ReSplit(Val(task[t].row).ingredients)
         IN Val(task[t].response).ingredients =
              [k \in 1..Len(pieces) |-> Strip(pieces[k])]
    /\ \A k \in 1..Len(task[t].calls) :
         task[t].calls[k].agent \in {"get_processed_score", "get_health_issues"}
           => task[t].calls[k].arg =
                <<"Ingredients:", " ">> \o Val(task[t].row).ingredients

\* C21: every result returned for a found row has processed_score and
\* nutrition_score in 1..5, both explanations and a health-issues model; none
\* of these fields was null when the result was built, adopted or computed.
C21_ResultFullyScored ==
  \A t \in Tasks :
    task[t].returned = "response" =>
      LET rs == Val(task[t].response)
      IN /\ rs.processed_score \in 1..5
         /\ rs.nutrition_score \in 1..5
         /\ IsPotentialHealthIssues(rs.health_issues)
         /\ \A c \in DerivedCols \ {"url"} :
              /\ task[t].loc[c] # None
              /\ c # "health_issues" => rs[c] = Val(task[t].loc[c])

C21_Witness ==
  \E t \in Tasks :
    /\ task[t].returned = "response"
    /\ NullFields(Val(task[t].row)) = {"processed_score", "url"}
    /\ Val(task[t].response).processed_score = 2
    /\ Val(task[t].response).nutrition_score = 3
    /\ Val(task[t].response).url = None

\* C22: no invocation ends while holding its session: a finished request
\* that opened a session (it read the store) has closed it, however it ended
\* (no row, a result, a result after a failed write, an exception), and only
\* a request still being handled has an open session.
C22_SessionReleased ==
  \A t \in Tasks :
    /\ Done(t) /\ task[t].reads >= 1 => task[t].session = "closed"
    /\ task[t].session = "open" => task[t].pc \notin {"idle", "done"}

C22_Witness ==
  \E t, u \in Tasks :
    /\ Done(t) /\ task[t].returned = "raised" /\ FailedCalls(t) # {}
    /\ task[t].session = "closed"
    /\ Done(u) /\ task[u].returned = "response"
    /\ task[u].updates # <<>> /\ task[u].commits = 0
    /\ task[u].session = "closed"

\* The number of distinct keywords named, in any case, by some ingredient.
DistinctMatches(ingredients) ==
  Cardinality({k \in 1..Len(UltraProcessingKeywords) :
     \E i \in 1..Len(ingredients) :
       \E j \in 1..Len(ingredients[i]) :
         Lower(ingredients[i])[j] = UltraProcessingKeywords[k]})

\* C23: heuristicScore gives every ingredient list a score in 1..5 by the
\* rules, in this priority: at most 1 ingredient -> 1; at most 5 ingredients
\* and no keyword matched -> 2; at most 10 ingredients and at most 1 keyword
\* matched -> 3; at least 4 keywords matched or more than 20 ingredients ->
\* 5; otherwise 4; a keyword counts once however many ingredients name it,
\* and the explanation is the fixed one of the score.
C23_HeuristicRules ==
  heuristic.pc = "scored" =>
    LET n == Len(heuristic.ingredients)
        m == DistinctMatches(heuristic.ingredients)
        r == Val(heuristic.result)
    IN /\ r.score \in 1..5
       /\ n <= 1 => r.score = 1
       /\ n > 1 /\ n <= 5 /\ m = 0 => r.score = 2
       /\ n > 1 /\ ~(n <= 5 /\ m = 0) /\ n <= 10 /\ m <= 1 => r.score = 3
       /\ n > 1 /\ ~(n <= 10 /\ m <= 1) /\ (m >= 4 \/ n > 20) => r.score = 5
       /\ n > 1 /\ ~(n <= 10 /\ m <= 1) /\ m < 4 /\ n <= 20 => r.score = 4
       /\ r.explanation = <<"level", r.score>>

C23_Witness ==
  /\ heuristic.pc = "scored"
  /\ Len(heuristic.ingredients) = 12
  /\ DistinctMatches(heuristic.ingredients) = 3
  /\ \E i, j \in 1..Len(heuristic.ingredients) :
       /\ heuristic.ingredients[i] = <<"emulsifier">>
       /\ heuristic.ingredients[j] = <<"Emulsifier">>
  /\ Val(heuristic.result).score = 4

\* C24: no step takes a derived column of a stored row from non-NULL to
\* NULL, and no UPDATE an invocation has issued binds NULL to a derived
\* column, whatever the interleaving and whichever oracle runs, UPDATEs and
\* commits fail.
C24_MonotonicStore ==
  [][/\ \A i \in RowIds : \A c \in DerivedCols :
          store[i][c] # None => store'[i][c] # None
     /\ \A t \in Tasks : \A k \in 1..Len(task'[t].updates) :
          \A c \in DerivedCols :
            LET stmt == task'[t].updates[k]
            IN (InSetQuery(c, stmt.cols) \/ c \in DOMAIN stmt.params)
                 => c \in DOMAIN stmt.params /\ stmt.params[c] # None]_vars

C24_Witness ==
  \E t, u \in Tasks :
    /\ Done(t) /\ task[t].commits = 1
    /\ "validation" \in OutcomesOf(t, "get_product_url")
    /\ NullFields(Val(task[t].row)) = {"nutrition_score", "url"}
    /\ NullFields(StoredRow(t)) = {"url"}
    /\ Done(u) /\ Found(u) /\ task[u].updates # <<>> /\ task[u].commits = 0

\* C25: a step changes a stored row only as the commit of an invocation that
\* loaded the row with that fdc_id, and then only in columns its UPDATE
\* names, all of them derived columns; the raw columns of every row and all
\* other rows stay as they are.
C25_Frame ==
  [][\A i \in RowIds :
       /\ \A c \in RawCols : store'[i][c] = store[i][c]
       /\ store'[i] # store[i] =>
            \E t \in Tasks :
              /\ Commits(t)
              /\ Val(task[t].row).fdc_id = store[i].fdc_id
              /\ \A c \in DerivedCols :
                   store'[i][c] # store[i][c] =>
                     InSetQuery(c, task[t].updates[Len(task[t].updates)].cols)
              /\ \A j \in RowIds \ {i} : store'[j] = store[j]]_vars

C25_Witness ==
  \E t \in Tasks :
    /\ Done(t) /\ task[t].commits = 1
    /\ Val(task[t].row).fdc_id = 1
    /\ NullFields(Val(task[t].row)) = {"health_issues"}
    /\ store[1].health_issues # None
    /\ \A c \in RawCols : store[1][c] = RawRow(1)[c]
    /\ \A c \in DerivedCols \ {"health_issues"} :
         store[1][c] = Val(task[t].row)[c]
    /\ store[2] = MakeRow(2, {"p", "n", "h", "u"})

\* The first of fdc_id, gtin_upc, query that is truthy in the request.
FirstTruthy(req) ==
  IF TruthyInt(req.fdc_id) THEN "fdc_id"
  ELSE IF TruthyStr(req.gtin_upc) THEN "gtin_upc"
  ELSE IF TruthyStr(req.query) THEN "query"
  ELSE "none"

\* The lookup of task t is the one by field f of its request: the condition
\* is on f, and a row it loaded has the requested fdc_id or barcode.
LooksUpBy(t, f) ==
  /\ task[t].reads = 1
  /\ task[t].cond # None /\ Val(task[t].cond).kind = f
  /\ Found(t) /\ f = "fdc_id" =>
       Val(task[t].row).fdc_id = Val(Val(task[t].req).fdc_id)
  /\ Found(t) /\ f = "gtin_upc" =>
       Val(task[t].row).gtin_upc = Val(Val(task[t].req).gtin_upc)
  /\ Found(t) /\ f = "query" =>
       \A i \in 1..Len(Val(Val(task[t].req).query)) :
         LET w == LowerTok(Val(Val(task[t].req).query)[i])
         IN w # " " => <<w>> \in Val(task[t].row).autocomplete

\* C26 (as claimed): every request makes exactly one store lookup, by the
\* first truthy field in the order fdc_id, gtin_upc, query.
C26_OneLookupByFirstTruthy ==
  \A t \in Tasks :
    task[t].pc # "idle" =>
      /\ FirstTruthy(Val(task[t].req)) # "none"
      /\ LooksUpBy(t, FirstTruthy(Val(task[t].req)))

\* C26 (amended): a request with a truthy field makes exactly one store
\* lookup, by the first truthy field in the order fdc_id, gtin_upc, query,
\* later fields and falsy ones being ignored; a request with no truthy field
\* makes no lookup.
C26_LookupByFirstTruthy ==
  \A t \in Tasks :
    task[t].pc # "idle" =>
      IF FirstTruthy(Val(task[t].req)) = "none"
      THEN task[t].reads = 0 /\ task[t].cond = None /\ ~Found(t)
      ELSE LooksUpBy(t, FirstTruthy(Val(task[t].req)))

C26_Witness ==
  \E t, u \in Tasks :
    /\ Done(t) /\ Found(t)
    /\ task[t].req = Some(Req(Some(2), Some(<<"0", "1">>), None))
    /\ Val(task[t].row).fdc_id = 2 /\ task[t].reads = 1
    /\ Done(u) /\ Found(u)
    /\ task[u].req = Some(Req(Some(0), Some(<<>>), Some(<<"water">>)))
    /\ Val(task[u].cond).kind = "query" /\ task[u].reads = 1
====
